---- MODULE Spec2Model ----
(***************************************************************************)
(* Model of python-service/server.py: the embedding service that keeps a   *)
(* FAISS flat L2 index together with the dictionaries movie_id_to_index,   *)
(* movie_id_to_title, the list embeddings_list and the counter next_index, *)
(* and serves GetMovieEmbedding, GetSimilarMovie and GetSimilarMovies from *)
(* the worker threads of a gRPC thread pool.  The handlers take no lock,   *)
(* so every access to the shared objects is a step of its own.             *)
(***************************************************************************)
EXTENDS Integers, Sequences, FiniteSets, TLC

\* ---------------------------------------------------------------- bounds
NumWorkers == 2      \* worker threads of the pool that are modelled
MaxRequests == 3     \* requests served in one behaviour
MaxId == 2           \* movie ids are 1..MaxId
MaxLimit == 2        \* request.limit is in -1..MaxLimit
\* the same four for the service run with a smaller pool
SeqWorkers == 1
SeqRequests == 2
SeqMaxId == 2
SeqMaxLimit == 0

\* ------------------------------------------------------ program constants
EMBEDDING_DIM == 384

Workers == 1..NumWorkers
MovieIds == 1..MaxId
Titles == {"A", "B"}
Limits == (-1)..MaxLimit
None == 0            \* Python None, where a movie id is expected

\* An embedding is a float array of len components.  Its first two
\* components are c; every other component is 0.
Embedding(x, y) == [len |-> EMBEDDING_DIM, c |-> <<x, y>>]
NoEmbedding == [len |-> 0, c |-> <<0, 0>>]

\* model.encode(f"{request.title}: {request.overview}"): the encoder is a
\* function of the text.  The requests of the model differ in their title
\* and share one overview, so the title decides the embedding.
ModelEncode(title) == IF title = "A" THEN Embedding(1, 0) ELSE Embedding(0, 1)
\* an encoder that hands back an array of another dimension
WrongDim == [len |-> EMBEDDING_DIM + 1, c |-> <<0, 0>>]
\* an encoder that raises instead of returning
EncoderError == [len |-> -1, c |-> <<0, 0>>]
\* what the call of the encoder can come to for a title
EncoderOutcomes(title) == {ModelEncode(title), WrongDim, EncoderError}

VARIABLES
    index,              \* the vectors held by faiss.IndexFlatL2; ntotal = Len(index)
    movie_id_to_index,  \* dict, as the sequence of its items in insertion order
    movie_id_to_title,  \* dict, as a function on the ids that have a title
    embeddings_list,    \* list of embeddings
    next_index,         \* the global counter
    pc,                 \* per worker: the statement it is about to run
    req,                \* per worker: the request it is serving
    loc,                \* per worker: the handler's local variables
    status,             \* per worker: the status of the finished call
    resp,               \* per worker: the recommendations of the response
    nreq,               \* requests received so far
    addreqs,            \* per movie id: GetMovieEmbedding requests received for it
    overlapped,         \* some request was received while another was being served
    addsraced,          \* two calls of index.add ran at the same time
    added,              \* the slots given out by the adds that returned OK, in order of return
    scope               \* the pool size and the request inputs of this run

shared == <<index, movie_id_to_index, movie_id_to_title, embeddings_list, next_index>>
vars == <<index, movie_id_to_index, movie_id_to_title, embeddings_list, next_index,
          pc, req, loc, status, resp, nreq, addreqs, overlapped, addsraced, added, scope>>

ntotal == Len(index)

\* ------------------------------------------------------------ dict helpers
DictKeys(d) == {d[i].mid : i \in 1..Len(d)}

DictHas(d, k) == \E i \in 1..Len(d) : d[i].mid = k

DictGet(d, k) == d[CHOOSE i \in 1..Len(d) : d[i].mid = k].idx

\* d[k] = v: an existing key keeps its place in the iteration order
DictSet(d, k, v) ==
    IF DictHas(d, k)
    THEN [i \in 1..Len(d) |-> IF d[i].mid = k THEN [mid |-> k, idx |-> v] ELSE d[i]]
    ELSE Append(d, [mid |-> k, idx |-> v])

TitleSet(d, k, v) == [i \in (DOMAIN d) \cup {k} |-> IF i = k THEN v ELSE d[i]]

TitleGet(d, k, default) == IF k \in DOMAIN d THEN d[k] ELSE default

\* next((mid for mid, idx in movie_id_to_index.items() if idx == s), None)
FirstMid(d, s) ==
    IF \E i \in 1..Len(d) : d[i].idx = s
    THEN LET i == CHOOSE j \in 1..Len(d) :
                      /\ d[j].idx = s
                      /\ \A l \in 1..(j - 1) : d[l].idx # s
         IN d[i].mid
    ELSE None

\* ------------------------------------------------------------ flat L2 index
L2sqr(a, b) ==
    (a.c[1] - b.c[1]) * (a.c[1] - b.c[1]) + (a.c[2] - b.c[2]) * (a.c[2] - b.c[2])

\* slot s2 comes before slot s1 in the result of a search for q
Before(xb, q, s2, s1) ==
    \/ L2sqr(q, xb[s2 + 1]) < L2sqr(q, xb[s1 + 1])
    \/ /\ L2sqr(q, xb[s2 + 1]) = L2sqr(q, xb[s1 + 1])
       /\ s2 < s1

Rank(xb, q, s) == Cardinality({s2 \in 0..(Len(xb) - 1) : Before(xb, q, s2, s)})

\* index.search(q, k) for one query: k labels, nearest first, -1 where the
\* index holds fewer than k vectors
Search(xb, q, k) ==
    [i \in 1..k |-> IF i <= Len(xb)
                    THEN CHOOSE s \in 0..(Len(xb) - 1) : Rank(xb, q, s) = i - 1
                    ELSE -1]

\* ------------------------------------------------------------------- Init
NoReq == [op |-> "none", movie_id |-> None, title |-> "", out |-> NoEmbedding,
          limit |-> 0]
NoLoc == [embedding |-> NoEmbedding, n |-> 0, slot |-> 0, indices |-> <<>>,
          dup |-> FALSE]

Start ==
    /\ index = <<>>
    /\ movie_id_to_index = <<>>
    /\ movie_id_to_title = <<>>
    /\ embeddings_list = <<>>
    /\ next_index = 0
    /\ pc = [t \in Workers |-> "idle"]
    /\ req = [t \in Workers |-> NoReq]
    /\ loc = [t \in Workers |-> NoLoc]
    /\ status = [t \in Workers |-> "none"]
    /\ resp = [t \in Workers |-> <<>>]
    /\ nreq = 0
    /\ addreqs = [m \in MovieIds |-> 0]
    /\ overlapped = FALSE
    /\ added = <<>>
    /\ addsraced = FALSE

Init ==
    /\ Start
    /\ scope = [workers |-> NumWorkers, requests |-> MaxRequests, ids |-> MaxId,
                limit |-> MaxLimit]

InitSeq ==
    /\ Start
    /\ scope = [workers |-> SeqWorkers, requests |-> SeqRequests, ids |-> SeqMaxId,
                limit |-> SeqMaxLimit]

\* ------------------------------------------------------------ bookkeeping
\* worker t finishes its call with status st and recommendations r; of the
\* call, the operation, the id and the limit asked for stay on record
Finish(t, st, r) ==
    /\ pc' = [pc EXCEPT ![t] = "done"]
    /\ status' = [status EXCEPT ![t] = st]
    /\ resp' = [resp EXCEPT ![t] = r]
    /\ loc' = [loc EXCEPT ![t] = NoLoc]
    /\ req' = [req EXCEPT ![t] = [@ EXCEPT !.title = "", !.out = NoEmbedding]]

\* worker t goes on to statement p with its locals set to l
Goto(t, p, l) ==
    /\ pc' = [pc EXCEPT ![t] = p]
    /\ loc' = [loc EXCEPT ![t] = l]
    /\ UNCHANGED <<status, resp, req>>

\* a free worker of the pool takes request r
Receive(t, r) ==
    /\ t <= scope.workers
    /\ pc[t] \in {"idle", "done"}
    /\ nreq < scope.requests
    /\ nreq' = nreq + 1
    /\ req' = [req EXCEPT ![t] = r]
    /\ status' = [status EXCEPT ![t] = "none"]
    /\ resp' = [resp EXCEPT ![t] = <<>>]
    /\ overlapped' = (overlapped \/ \E u \in Workers \ {t} : pc[u] \notin {"idle", "done"})
    /\ UNCHANGED <<scope, added, addsraced>>

\* ------------------------------------------------------- GetMovieEmbedding
RecvGetMovieEmbedding(t) ==
    \E m \in 1..scope.ids, ti \in Titles : \E o \in EncoderOutcomes(ti) :
        /\ Receive(t, [op |-> "GetMovieEmbedding", movie_id |-> m, title |-> ti,
                       out |-> o, limit |-> 0])
        /\ pc' = [pc EXCEPT ![t] = "encode"]
        /\ loc' = [loc EXCEPT ![t] = [NoLoc EXCEPT !.dup = DictHas(movie_id_to_index, m)]]
        /\ addreqs' = [addreqs EXCEPT ![m] = @ + 1]
        /\ UNCHANGED shared

\* Encode with the id registered before the encoder is called
EncodeAfterRegister(t) ==
    /\ pc[t] = "encode"
    /\ movie_id_to_index' = DictSet(movie_id_to_index, req[t].movie_id, next_index)
    /\ IF req[t].out = EncoderError
       THEN Finish(t, "EncoderError", <<>>)
       ELSE Goto(t, "add_read", [loc[t] EXCEPT !.embedding = req[t].out])
    /\ UNCHANGED <<index, movie_id_to_title, embeddings_list, next_index,
                   nreq, addreqs, overlapped, addsraced, added, scope>>

\* embedding = model.encode(text, convert_to_numpy=True); an exception of
\* the encoder leaves the handler
Encode(t) ==
    /\ pc[t] = "encode"
    /\ IF req[t].out = EncoderError
       THEN Finish(t, "EncoderError", <<>>)
       ELSE Goto(t, "add_read", [loc[t] EXCEPT !.embedding = req[t].out])
    /\ UNCHANGED <<shared, nreq, addreqs, overlapped, addsraced, added, scope>>

\* index.add(embedding_np), first half: the wrapper checks the dimension
\* (assert d == self.d) and the index reads its ntotal.  The call runs
\* without the interpreter lock and the index is not synchronised.
IndexAddRead(t) ==
    /\ pc[t] = "add_read"
    /\ IF loc[t].embedding.len # EMBEDDING_DIM
       THEN Finish(t, "AssertionError", <<>>)
       ELSE Goto(t, "add_write", [loc[t] EXCEPT !.n = ntotal])
    /\ addsraced' = (addsraced \/ /\ loc[t].embedding.len = EMBEDDING_DIM
                                  /\ \E u \in Workers \ {t} : pc[u] = "add_write")
    /\ UNCHANGED <<shared, nreq, addreqs, overlapped, added, scope>>

\* the storage resized to n + 1 vectors with v copied in at position n
Stored(xb, n, v) ==
    [i \in 1..(n + 1) |-> IF i = n + 1 THEN v
                          ELSE IF i <= Len(xb) THEN xb[i]
                          ELSE Embedding(0, 0)]

\* index.add(embedding_np), second half: resize, copy, ntotal = n + 1
IndexAddWrite(t) ==
    /\ pc[t] = "add_write"
    /\ index' = Stored(index, loc[t].n, loc[t].embedding)
    /\ Goto(t, "reg_load", loc[t])
    /\ UNCHANGED <<movie_id_to_index, movie_id_to_title, embeddings_list, next_index,
                   nreq, addreqs, overlapped, addsraced, added, scope>>

\* movie_id_to_index[movie_id] = next_index: the global is loaded
RegisterLoad(t) ==
    /\ pc[t] = "reg_load"
    /\ Goto(t, "reg_store", [loc[t] EXCEPT !.slot = next_index])
    /\ UNCHANGED <<shared, nreq, addreqs, overlapped, addsraced, added, scope>>

\* movie_id_to_index[movie_id] = next_index: the item is stored
RegisterStore(t) ==
    /\ pc[t] = "reg_store"
    /\ movie_id_to_index' = DictSet(movie_id_to_index, req[t].movie_id, loc[t].slot)
    /\ Goto(t, "title", loc[t])
    /\ UNCHANGED <<index, movie_id_to_title, embeddings_list, next_index,
                   nreq, addreqs, overlapped, addsraced, added, scope>>

\* movie_id_to_title[movie_id] = request.title
TitleStore(t) ==
    /\ pc[t] = "title"
    /\ movie_id_to_title' = TitleSet(movie_id_to_title, req[t].movie_id, req[t].title)
    /\ Goto(t, "append", loc[t])
    /\ UNCHANGED <<index, movie_id_to_index, embeddings_list, next_index,
                   nreq, addreqs, overlapped, addsraced, added, scope>>

\* embeddings_list.append(embedding)
ListAppend(t) ==
    /\ pc[t] = "append"
    /\ embeddings_list' = Append(embeddings_list, loc[t].embedding)
    /\ Goto(t, "inc_load", loc[t])
    /\ UNCHANGED <<index, movie_id_to_index, movie_id_to_title, next_index,
                   nreq, addreqs, overlapped, addsraced, added, scope>>

\* next_index += 1: the global is loaded
IncrementLoad(t) ==
    /\ pc[t] = "inc_load"
    /\ Goto(t, "inc_store", [loc[t] EXCEPT !.n = next_index])
    /\ UNCHANGED <<shared, nreq, addreqs, overlapped, addsraced, added, scope>>

\* next_index += 1: the sum is stored; the handler returns the embedding
IncrementStore(t) ==
    /\ pc[t] = "inc_store"
    /\ next_index' = loc[t].n + 1
    /\ Finish(t, "OK", <<>>)
    /\ added' = Append(added, loc[t].slot)
    /\ UNCHANGED <<index, movie_id_to_index, movie_id_to_title, embeddings_list,
                   nreq, addreqs, overlapped, addsraced, scope>>

\* ----------------------------------------- GetSimilarMovie, GetSimilarMovies
RecvGetSimilarMovie(t) ==
    \E m \in 1..scope.ids :
        /\ Receive(t, [NoReq EXCEPT !.op = "GetSimilarMovie", !.movie_id = m])
        /\ pc' = [pc EXCEPT ![t] = "lookup"]
        /\ loc' = [loc EXCEPT ![t] = NoLoc]
        /\ UNCHANGED <<shared, addreqs>>

RecvGetSimilarMovies(t) ==
    \E m \in 1..scope.ids, l \in (-1)..scope.limit :
        /\ Receive(t, [NoReq EXCEPT !.op = "GetSimilarMovies", !.movie_id = m,
                                    !.limit = l])
        /\ pc' = [pc EXCEPT ![t] = "lookup"]
        /\ loc' = [loc EXCEPT ![t] = NoLoc]
        /\ UNCHANGED <<shared, addreqs>>

\* Lookup by movie_id_to_index.setdefault(query_movie_id, next_index)
LookupSetDefault(t) ==
    /\ pc[t] = "lookup"
    /\ movie_id_to_index' =
           IF DictHas(movie_id_to_index, req[t].movie_id)
           THEN movie_id_to_index
           ELSE DictSet(movie_id_to_index, req[t].movie_id, next_index)
    /\ Goto(t, "fetch", [loc[t] EXCEPT !.slot = DictGet(movie_id_to_index', req[t].movie_id)])
    /\ UNCHANGED <<index, movie_id_to_title, embeddings_list, next_index,
                   nreq, addreqs, overlapped, addsraced, added, scope>>

\* Lookup that answers an unknown id without setting the status code
LookupNoCode(t) ==
    /\ pc[t] = "lookup"
    /\ IF ~DictHas(movie_id_to_index, req[t].movie_id)
       THEN Finish(t, "OK", <<>>)
       ELSE Goto(t, "fetch",
                 [loc[t] EXCEPT !.slot = DictGet(movie_id_to_index, req[t].movie_id)])
    /\ UNCHANGED <<shared, nreq, addreqs, overlapped, addsraced, added, scope>>

\* if query_movie_id not in movie_id_to_index: NOT_FOUND, empty response;
\* query_index = movie_id_to_index[query_movie_id]
Lookup(t) ==
    /\ pc[t] = "lookup"
    /\ IF ~DictHas(movie_id_to_index, req[t].movie_id)
       THEN Finish(t, "NOT_FOUND", <<>>)
       ELSE Goto(t, "fetch",
                 [loc[t] EXCEPT !.slot = DictGet(movie_id_to_index, req[t].movie_id)])
    /\ UNCHANGED <<shared, nreq, addreqs, overlapped, addsraced, added, scope>>

\* query_embedding = np.array([embeddings_list[query_index]]); a list
\* index out of range raises IndexError
Fetch(t) ==
    /\ pc[t] = "fetch"
    /\ IF loc[t].slot >= Len(embeddings_list)
       THEN Finish(t, "IndexError", <<>>)
       ELSE Goto(t, "search", [loc[t] EXCEPT !.embedding = embeddings_list[loc[t].slot + 1]])
    /\ UNCHANGED <<shared, nreq, addreqs, overlapped, addsraced, added, scope>>

\* the number of neighbours the handler asks the index for
NumNeighbors(r) == IF r.op = "GetSimilarMovie" THEN 2 ELSE r.limit + 1

\* distances, indices = index.search(query_embedding, num_neighbors); the
\* wrapper refuses k <= 0 (assert k > 0)
SearchIndex(t) ==
    /\ pc[t] = "search"
    /\ IF NumNeighbors(req[t]) <= 0
       THEN Finish(t, "AssertionError", <<>>)
       ELSE Goto(t, "resolve",
                 [loc[t] EXCEPT !.indices = Search(index, loc[t].embedding,
                                                   NumNeighbors(req[t]))])
    /\ UNCHANGED <<shared, nreq, addreqs, overlapped, addsraced, added, scope>>

\* GetSimilarMovie, after the search: the second label is taken for the
\* most similar movie and resolved to an id by a scan of the dict
SimilarMovie(d, titles, indices) ==
    IF Len(indices) < 2
    THEN [status |-> "NOT_FOUND", resp |-> <<>>]
    ELSE LET similar_movie_id == FirstMid(d, indices[2])
         IN IF similar_movie_id = None
            THEN [status |-> "NOT_FOUND", resp |-> <<>>]
            ELSE [status |-> "OK",
                  resp |-> <<[movie_id |-> similar_movie_id,
                              title |-> TitleGet(titles, similar_movie_id, "")]>>]

\* GetSimilarMovies, after the search: every label but the first is
\* resolved to an id; labels that resolve to None are left out
SimilarMovies(d, titles, indices) ==
    LET ids == [i \in 1..(Len(indices) - 1) |-> FirstMid(d, indices[i + 1])]
        found == SelectSeq(ids, LAMBDA m : m # None)
    IN [status |-> "OK",
        resp |-> [i \in 1..Len(found) |->
                     [movie_id |-> found[i],
                      title |-> TitleGet(titles, found[i], "Unknown")]]]

Resolve(t) ==
    /\ pc[t] = "resolve"
    /\ LET r == IF req[t].op = "GetSimilarMovie"
                THEN SimilarMovie(movie_id_to_index, movie_id_to_title, loc[t].indices)
                ELSE SimilarMovies(movie_id_to_index, movie_id_to_title, loc[t].indices)
       IN Finish(t, r.status, r.resp)
    /\ UNCHANGED <<shared, nreq, addreqs, overlapped, addsraced, added, scope>>

\* ------------------------------------------------------------------- Next
Next ==
    \E t \in Workers :
        \/ RecvGetMovieEmbedding(t)
        \/ Encode(t)
        \/ IndexAddRead(t)
        \/ IndexAddWrite(t)
        \/ RegisterLoad(t)
        \/ RegisterStore(t)
        \/ TitleStore(t)
        \/ ListAppend(t)
        \/ IncrementLoad(t)
        \/ IncrementStore(t)
        \/ RecvGetSimilarMovie(t)
        \/ RecvGetSimilarMovies(t)
        \/ Lookup(t)
        \/ Fetch(t)
        \/ SearchIndex(t)
        \/ Resolve(t)

Spec == Init /\ [][Next]_vars

\* the service with the smaller pool
SpecSeq == InitSeq /\ [][Next]_vars
\* =================================================================== claims
\* worker t is inside a call
Busy(t) == pc[t] \notin {"idle", "done"}
\* no GetMovieEmbedding call is in progress
NoAddInProgress == \A t \in Workers : Busy(t) => req[t].op # "GetMovieEmbedding"
\* a read call is in progress
ReaderRunning == \E t \in Workers : Busy(t) /\ req[t].op # "GetMovieEmbedding"
\* no id was sent in two GetMovieEmbedding requests
DistinctAdds == \A m \in MovieIds : addreqs[m] <= 1
\* the ids registered to slot s
IdsAt(s) == {m \in DictKeys(movie_id_to_index) : DictGet(movie_id_to_index, m) = s}
\* worker t takes a step
Steps(t) == pc'[t] # pc[t]

\* C1: whenever no add is in progress, also after adds that repeat a
\* registered id, the number of vectors in the index equals the number of
\* entries of movie_id_to_index.
C1_StoreLengthIsRegistrySize ==
    (NoAddInProgress /\ ~overlapped) => ntotal = Len(movie_id_to_index)

\* C2: whenever no add is in progress, every slot below the store length
\* has exactly one id registered to it, and the reverse lookup of the read
\* operations takes the slot of every registered id back to that id.
C2_RegistryIsBijection ==
    (NoAddInProgress /\ ~overlapped) =>
        /\ \A s \in 0..(ntotal - 1) : Cardinality(IdsAt(s)) = 1
        /\ \A m \in DictKeys(movie_id_to_index) :
               FirstMid(movie_id_to_index, DictGet(movie_id_to_index, m)) = m

\* C3: after concurrent adds with pairwise distinct ids have all completed,
\* no two distinct ids map to the same slot.
C3_DistinctIdsDistinctSlots ==
    (NoAddInProgress /\ DistinctAdds) =>
        \A m1, m2 \in DictKeys(movie_id_to_index) :
            m1 # m2 => DictGet(movie_id_to_index, m1) # DictGet(movie_id_to_index, m2)

\* C4: at every point at which a read runs, the writes are whole: every
\* registered id has its vector in the index and in embeddings_list at its
\* slot, and every slot of the index resolves to an id.
C4_NoHalfCompletedWrite ==
    (ReaderRunning /\ DistinctAdds) =>
        /\ \A m \in DictKeys(movie_id_to_index) :
               /\ DictGet(movie_id_to_index, m) < ntotal
               /\ DictGet(movie_id_to_index, m) < Len(embeddings_list)
        /\ \A s \in 0..(ntotal - 1) : FirstMid(movie_id_to_index, s) # None

\* C5: no step of an add whose id was registered when the call arrived
\* changes the index, the two dicts, the list or the counter, and the call
\* ends with DuplicateId.
C5_DuplicateIdRejected ==
    [][\A t \in Workers :
           (/\ Steps(t)
            /\ Busy(t)
            /\ req[t].op = "GetMovieEmbedding"
            /\ req[t].out = ModelEncode(req[t].title)
            /\ loc[t].dup
            /\ ~overlapped)
           => /\ UNCHANGED shared
              /\ pc'[t] = "done" => status'[t] = "DuplicateId"]_vars

\* C6: a step of an add whose encoder raises changes neither the index,
\* the dicts, the list nor the counter: the call is received, the encoder
\* raises, and the call is over.
C6_EncoderFailureChangesNothing ==
    [][\A t \in Workers :
           /\ (Steps(t) /\ pc'[t] = "encode" /\ req'[t].out = EncoderError)
                  => UNCHANGED shared
           /\ (Steps(t) /\ pc[t] = "encode" /\ req[t].out = EncoderError)
                  => /\ UNCHANGED shared
                     /\ pc'[t] = "done"
                     /\ status'[t] = "EncoderError"]_vars

\* an add ended by the encoder's exception, on a store that holds items
C6_Witness ==
    \E t \in Workers :
        /\ pc[t] = "done"
        /\ req[t].op = "GetMovieEmbedding"
        /\ status[t] = "EncoderError"
        /\ ntotal > 0
        /\ Len(movie_id_to_index) > 0
\* worker t has finished a call of operation op
Finished(t, op) == pc[t] = "done" /\ req[t].op = op
\* worker t takes the last step of a call of operation op
Finishes(t, op) == Busy(t) /\ pc'[t] = "done" /\ req[t].op = op
\* the id the call of worker t asks about is registered
QueryRegistered(t) == DictHas(movie_id_to_index, req[t].movie_id)
\* the movie ids of the recommendations r, in order
RespIds(r) == [i \in 1..Len(r) |-> r[i].movie_id]
\* every slot of the store but slot qs, nearest to the vector of qs first,
\* equal distances in ascending slot order
Neighbours(qs) ==
    SelectSeq(Search(index, embeddings_list[qs + 1], ntotal), LAMBDA s : s # qs)
\* the ids of the first n of them
NearestIds(qs, n) == [i \in 1..n |-> FirstMid(movie_id_to_index, Neighbours(qs)[i])]
Min(a, b) == IF a < b THEN a ELSE b

\* C7: a GetSimilarMovie that ends OK returns a registered id other than
\* the id asked about, also when another slot holds the same vector.
C7_SimilarMovieIsAnotherMovie ==
    \A t \in Workers :
        (/\ Finished(t, "GetSimilarMovie")
         /\ status[t] = "OK"
         /\ ~overlapped
         /\ DistinctAdds)
        => /\ RespIds(resp[t])[1] \in DictKeys(movie_id_to_index)
           /\ RespIds(resp[t])[1] # req[t].movie_id

\* C8: GetSimilarMovie for a registered id ends NOT_FOUND when fewer than
\* two items are registered, that is, when no item other than the one
\* asked about exists.
C8_FewerThanTwoItemsIsNotFound ==
    [][\A t \in Workers :
           (/\ Finishes(t, "GetSimilarMovie")
            /\ QueryRegistered(t)
            /\ Len(movie_id_to_index) < 2
            /\ ~overlapped)
           => status'[t] = "NOT_FOUND"]_vars

\* C9: GetSimilarMovies for a registered id and limit >= 1 returns the ids
\* of the min(limit, N - 1) items nearest to the query's vector other than
\* the query's own slot, by ascending distance and then ascending slot.
C9_NearestOthersInOrder ==
    [][\A t \in Workers :
           (/\ Finishes(t, "GetSimilarMovies")
            /\ QueryRegistered(t)
            /\ req[t].limit >= 1
            /\ ~overlapped
            /\ DistinctAdds)
           => /\ status'[t] = "OK"
              /\ RespIds(resp'[t])
                     = NearestIds(DictGet(movie_id_to_index, req[t].movie_id),
                                  Min(req[t].limit, ntotal - 1))]_vars

\* C10: GetSimilarMovies for a registered id with limit > N - 1 returns
\* exactly the other N - 1 registered ids, each once, and never the id
\* asked about.
C10_LimitSaturation ==
    [][\A t \in Workers :
           (/\ Finishes(t, "GetSimilarMovies")
            /\ QueryRegistered(t)
            /\ req[t].limit >= 1
            /\ req[t].limit > Len(movie_id_to_index) - 1
            /\ ~overlapped
            /\ DistinctAdds)
           => /\ status'[t] = "OK"
              /\ Len(resp'[t]) = Len(movie_id_to_index) - 1
              /\ {resp'[t][i].movie_id : i \in 1..Len(resp'[t])}
                     = DictKeys(movie_id_to_index) \ {req[t].movie_id}]_vars

\* the two read operations
ReadOps == {"GetSimilarMovie", "GetSimilarMovies"}

\* C11: GetSimilarMovies for a registered id with limit <= 0 ends with
\* INVALID_ARGUMENT, not OK with an empty list nor any other status, and
\* changes nothing of the index state.
C11_NonPositiveLimitIsInvalid ==
    [][\A t \in Workers :
           (/\ Finishes(t, "GetSimilarMovies")
            /\ QueryRegistered(t)
            /\ req[t].limit <= 0
            /\ ~overlapped)
           => /\ status'[t] = "INVALID_ARGUMENT"
              /\ UNCHANGED shared]_vars

\* C12: a read operation whose id is not registered when the handler looks
\* it up ends there, before any search, with NOT_FOUND and an empty
\* response, and changes nothing.
C12_UnknownIdIsNotFound ==
    [][\A t \in Workers :
           (/\ Steps(t)
            /\ pc[t] = "lookup"
            /\ req[t].op \in ReadOps
            /\ ~QueryRegistered(t))
           => /\ pc'[t] = "done"
              /\ status'[t] = "NOT_FOUND"
              /\ resp'[t] = <<>>
              /\ loc'[t].indices = <<>>
              /\ UNCHANGED shared]_vars

\* a read for an unregistered id answered NOT_FOUND on a store that holds
\* another item
C12_Witness ==
    \E t \in Workers :
        /\ pc[t] = "done"
        /\ req[t].op \in ReadOps
        /\ ~QueryRegistered(t)
        /\ status[t] = "NOT_FOUND"
        /\ resp[t] = <<>>
        /\ ntotal > 0
        /\ Len(movie_id_to_index) > 0

\* the statements of GetMovieEmbedding after the append to the index, up to
\* the end of the registration
Registering == {"reg_load", "reg_store", "title", "append", "inc_load", "inc_store"}

\* C13: the store never shrinks, and whenever no add is in progress its
\* length is the number of adds that returned OK and the k-th of them was
\* given slot k - 1 (in the runs in which the calls of index.add came one
\* after the other).
C13_DenseMonotonicSlots ==
    [][~addsraced' =>
           /\ Len(index') >= Len(index)
           /\ NoAddInProgress' =>
                  /\ Len(index') = Len(added')
                  /\ \A k \in 1..Len(added') : added'[k] = k - 1]_vars

\* C14: at most one add at a time is between its append to the index and
\* the end of its registration.
C14_SingleWriter ==
    Cardinality({t \in Workers : req[t].op = "GetMovieEmbedding"
                                 /\ pc[t] \in Registering}) <= 1

\* C15: an add whose encoder hands back an array of another dimension than
\* EMBEDDING_DIM ends with INVALID_ARGUMENT at the append, and registers
\* and appends nothing.
C15_WrongDimensionIsInvalidArgument ==
    [][\A t \in Workers :
           (/\ Steps(t)
            /\ pc[t] = "add_read"
            /\ loc[t].embedding.len # EMBEDDING_DIM)
           => /\ pc'[t] = "done"
              /\ status'[t] = "INVALID_ARGUMENT"
              /\ UNCHANGED shared]_vars

\* C16: whenever no add is in progress, next_index, index.ntotal and
\* len(embeddings_list) are equal, also after adds that ran concurrently
\* (their calls of index.add one after the other).
C16_SizeTrackersAgree ==
    (NoAddInProgress /\ ~addsraced) => /\ next_index = ntotal
                                       /\ ntotal = Len(embeddings_list)

\* C17: once the adds, of pairwise distinct ids and with their calls of
\* index.add one after the other, have returned, the slot of
\* every registered id holds, in the index and in embeddings_list, the
\* embedding of the call that registered the id (the encoding of the title
\* that call stored).
C17_SlotHoldsOwnVector ==
    (NoAddInProgress /\ DistinctAdds /\ ~addsraced) =>
        \A m \in DictKeys(movie_id_to_index) :
            LET s == DictGet(movie_id_to_index, m)
                v == ModelEncode(movie_id_to_title[m])
            IN /\ s < ntotal
               /\ s < Len(embeddings_list)
               /\ index[s + 1] = v
               /\ embeddings_list[s + 1] = v

====
